---- MODULE Spec2Model ----
(***************************************************************************)
(* Model of the multi-agent monitoring orchestrator of STELLAR-COMPASS     *)
(* (src/backend/stellar_ai_agents.py): BaseAgent's start/stop/_run_loop,   *)
(* the six agent variants as alert sources, and AgentOrchestrator with its *)
(* alert history and notification routing.                                 *)
(*                                                                         *)
(* Thread positions are named after the source line the thread is at.      *)
(***************************************************************************)
EXTENDS Integers, Sequences, FiniteSets, TLC

\* ------------------------------------------------------------------ bounds
\* alerts handled in a run that starts from the empty history
MaxHandled == 104
\* alerts raised during a run of the concurrent / lifecycle specifications
MaxCalls == 2
\* monitors that are inside check() when a concurrent run starts
NumInCheck == 2
\* loop threads spawned on one monitor
MaxThreads == 2
\* evaluations of the loop condition (line 34) in a run of the lifecycle specifications
MaxLoopTests == 2
\* activate_all_agents() calls in a run
MaxActivations == 2
\* loop-condition evaluations and alerts raised in a run of the orchestrator specification
MaxOrchLoopTests == 1
MaxOrchCalls == 1
MaxFailCalls == 1
MaxMonCalls == 1
MaxSmsHandled == 1
MaxCheckCycles == 3
\* alerts handled in a run of the specification of the orchestrator's calls
MaxOpsHandled == 2

\* ------------------------------------------------------- program constants
\* stellar_ai_agents.py:306-307, "Keep only last 100 alerts"
HistoryCap == 100

Priorities == <<"LOW", "MEDIUM", "HIGH", "CRITICAL">>

\* the agent classes in the order activate_all_agents constructs them
Kinds == <<"IdleAssetMonitorAgent", "OpportunityScoutAgent", "RiskMonitorAgent",
           "AutoRebalancerAgent", "YieldHarvesterAgent", "PriceMovementAgent">>

\* the (type, priority) pairs of the dicts the six check() methods pass to notify
AlertShapes ==
  << [kind |-> "IdleAssetMonitorAgent", type |-> "IDLE_ASSET",     priority |-> "MEDIUM"],
     [kind |-> "IdleAssetMonitorAgent", type |-> "IDLE_ASSET",     priority |-> "HIGH"],
     [kind |-> "OpportunityScoutAgent", type |-> "APY_SPIKE",      priority |-> "HIGH"],
     [kind |-> "RiskMonitorAgent",      type |-> "RISK_ALERT",     priority |-> "HIGH"],
     [kind |-> "RiskMonitorAgent",      type |-> "RISK_ALERT",     priority |-> "CRITICAL"],
     [kind |-> "AutoRebalancerAgent",   type |-> "REBALANCE",      priority |-> "MEDIUM"],
     [kind |-> "YieldHarvesterAgent",   type |-> "HARVEST",        priority |-> "LOW"],
     [kind |-> "PriceMovementAgent",    type |-> "PRICE_MOVEMENT", priority |-> "MEDIUM"],
     [kind |-> "PriceMovementAgent",    type |-> "PRICE_MOVEMENT", priority |-> "HIGH"] >>

\* an alert dict; id is the model's identity of the dict object
MkAlert(id, shape) == [id |-> id, type |-> shape.type, priority |-> shape.priority]

\* the alerts a monitor of class kind can raise
ShapesOf(kind) == {AlertShapes[i] : i \in {j \in 1..Len(AlertShapes) : AlertShapes[j].kind = kind}}

\* the k-th alert of the reference stream: the shapes in rotation
StreamAlert(k) == MkAlert(k, AlertShapes[((k - 1) % Len(AlertShapes)) + 1])

\* AgentOrchestrator.__init__, the table keyed by risk tolerance (percent)
AllocationTable(tag) ==
  CASE tag = "conservative" -> [LOW |-> 80, MODERATE |-> 20, HIGH |-> 0]
    [] tag = "moderate"     -> [LOW |-> 50, MODERATE |-> 40, HIGH |-> 10]
    [] tag = "aggressive"   -> [LOW |-> 30, MODERATE |-> 40, HIGH |-> 30]
    [] OTHER                -> [LOW |-> 50, MODERATE |-> 40, HIGH |-> 10]

\* the notification_channels dicts and phone numbers an orchestrator is built with
ChannelConfigs ==
  { [push |-> TRUE, email |-> TRUE, sms |-> TRUE],
    [push |-> FALSE, email |-> TRUE, sms |-> FALSE],
    [sms |-> TRUE] }
PhoneNumbers == {"", "+15550100"}

\* ------------------------------------------------------------------- state
VARIABLES
  agents,                \* every agent object constructed so far: [kind, is_active, notify]
  orch_agents,           \* AgentOrchestrator.agents: indices into agents
  threads,               \* every loop thread spawned so far: [agent, pc, alert, tmp]
  alert_history,         \* AgentOrchestrator.alert_history
  notification_channels, \* AgentOrchestrator.notification_channels
  phone_number,          \* AgentOrchestrator.phone_number
  risk_tolerance,        \* AgentOrchestrator.risk_tolerance
  target_allocation,     \* AgentOrchestrator.target_allocation
  created,               \* number of alert dicts built so far
  appended,              \* log: the alerts in the order line 303 appended them
  sent,                  \* log: <<alert id, channel>> for every message a channel printed
  loop_tests,            \* number of times line 34 was evaluated so far
  recent,                \* the list the last get_recent_alerts call returned
  outcome                \* the last public call and the exception it raised

orchVars == <<alert_history, notification_channels, phone_number, risk_tolerance,
              target_allocation>>
logVars  == <<created, appended, sent>>
vars == <<agents, orch_agents, threads, alert_history, notification_channels,
          phone_number, risk_tolerance, target_allocation, created, appended,
          sent, loop_tests, recent, outcome>>

\* ---------------------------------------------------------- pure operators
Min(a, b) == IF a < b THEN a ELSE b
Max(a, b) == IF a > b THEN a ELSE b

\* Python's s[start:] for a list s and an integer start
PySliceFrom(s, start) ==
  LET n  == Len(s)
      st == IF start < 0 THEN Max(n + start, 0) ELSE Min(start, n)
  IN  SubSeq(s, st + 1, n)

\* Python's dict.get(key, default)
DictGet(d, key, default) == IF key \in DOMAIN d THEN d[key] ELSE default

\* HandleHistory with the slice [:100] in place of [-100:]: drops the newest
HandleHistory_KeepFirst(h, alert) ==
  LET h1 == Append(h, alert)
  IN  IF Len(h1) > HistoryCap THEN SubSeq(h1, 1, HistoryCap) ELSE h1

\* lines 303-307 as one step: append, then keep the last 100
HandleHistory(h, alert) ==
  LET h1 == Append(h, alert)
  IN  IF Len(h1) > HistoryCap THEN PySliceFrom(h1, -HistoryCap) ELSE h1

\* lines 312-313 / 315-316 / 318-319 with 331-336: does the channel print a message
\* a push test that never looks at the preferences
PushFires_Always(nc) == TRUE

\* lines 312 and 315: the tests that guard the push and the email call
PushFires(nc) == DictGet(nc, "push", TRUE)

\* an email test that takes a missing entry for off
EmailFires_DefaultOff(nc) == DictGet(nc, "email", FALSE)

EmailFires(nc) == DictGet(nc, "email", TRUE)

\* the sms test without its priority condition
SmsCalled_AnyPriority(nc, alert) == DictGet(nc, "sms", FALSE)

\* line 318: the test that guards the _send_sms_notification call
SmsCalled(nc, alert) == DictGet(nc, "sms", FALSE) /\ alert.priority \in {"HIGH", "CRITICAL"}
SmsFires(nc, phone, alert) == SmsCalled(nc, alert) /\ phone # ""

\* the messages one _handle_notification call prints
Dispatch(nc, phone, alert) ==
     (IF PushFires(nc) THEN {<<alert.id, "push">>} ELSE {})
  \cup (IF EmailFires(nc) THEN {<<alert.id, "email">>} ELSE {})
  \cup (IF SmsFires(nc, phone, alert) THEN {<<alert.id, "sms">>} ELSE {})

\* AgentOrchestrator.get_recent_alerts
get_recent_alerts(h, limit) == PySliceFrom(h, -limit)

Range(s) == {s[i] : i \in 1..Len(s)}
Count(s, x) == Cardinality({i \in 1..Len(s) : s[i] = x})

\* ------------------------------------------------------------ construction
\* AgentOrchestrator.__init__(wallet, nc, phone, tag); no agent, no thread yet
Constructed(nc, phone, tag) ==
  /\ agents = <<>>
  /\ orch_agents = <<>>
  /\ threads = <<>>
  /\ alert_history = <<>>
  /\ notification_channels = nc
  /\ phone_number = phone
  /\ risk_tolerance = tag
  /\ target_allocation = AllocationTable(tag)
  /\ created = 0
  /\ appended = <<>>
  /\ sent = {}
  /\ loop_tests = 0
  /\ recent = <<>>
  /\ outcome = [op |-> "__init__", error |-> "none"]

InitOrchestrator ==
  \E nc \in ChannelConfigs, phone \in PhoneNumbers,
     tag \in {"conservative", "moderate", "aggressive"} :
    Constructed(nc, phone, tag)

\* --------------------------------------------- handle(), one call at a time
\* a handle() that rates the alerts already stored LOW before it appends
HandleWhole_Downgrade(alert) ==
  /\ alert_history' = HandleHistory([i \in 1..Len(alert_history) |->
                                      [alert_history[i] EXCEPT !.priority = "LOW"]], alert)
  /\ appended' = Append(appended, alert)
  /\ sent' = sent \cup Dispatch(notification_channels, phone_number, alert)

\* _handle_notification(alert) run to completion by a single caller
HandleWhole(alert) ==
  /\ alert_history' = HandleHistory(alert_history, alert)
  /\ appended' = Append(appended, alert)
  /\ sent' = sent \cup Dispatch(notification_channels, phone_number, alert)

\* the next call of a sequence of handle() calls made one after another
SeqHandle ==
  /\ created < MaxHandled
  /\ created' = created + 1
  /\ HandleWhole(StreamAlert(created + 1))
  /\ UNCHANGED <<agents, orch_agents, threads, notification_channels, phone_number,
                 risk_tolerance, target_allocation, loop_tests, recent, outcome>>

InitSeq == InitOrchestrator
NextSeq == SeqHandle
SpecSeq == InitSeq /\ [][NextSeq]_vars

\* the last n elements of s (all of s when it has fewer)
LastN(s, n) == SubSeq(s, Len(s) - Min(n, Len(s)) + 1, Len(s))

\* C1: after every one of a sequence of handle() calls made one after
\* another the history holds at most 100 alerts and is exactly the (up to) 100
\* most recently handled alerts in the order they were handled, the newest last.
C1_HistoryIsLast100 ==
  /\ Len(alert_history) <= HistoryCap
  /\ alert_history = LastN(appended, HistoryCap)

\* more than 100 alerts were handled and the oldest ones are gone
C1_Witness ==
  /\ Len(appended) > HistoryCap + 1
  /\ Len(alert_history) = HistoryCap
  /\ alert_history[1].id = Len(appended) - HistoryCap + 1
  /\ alert_history[HistoryCap].id = Len(appended)

\* ------------------------------------------------ BaseAgent: start and stop
HandlePcs == {"L303", "L306", "L307", "L307s", "L312", "L315", "L318"}
NoAlert == [id |-> 0, type |-> "", priority |-> ""]

\* a subclass __init__ called with the orchestrator's bound method as callback
NewAgent(kind) == [kind |-> kind, is_active |-> FALSE, notify |-> "_handle_notification"]
\* a thread that sleeps its interval before it looks at anything
NewThread_SleepFirst(a) == [agent |-> a, pc |-> "L38", alert |-> NoAlert, tmp |-> <<>>, emitted |-> {}]

\* threading.Thread(target=self._run_loop): the thread is about to run line 34;
\* emitted logs the notify() calls of the check() call the thread is in: the
\* alert's id and whether the agent's is_active flag was set at the call
NewThread(a) == [agent |-> a, pc |-> "L34", alert |-> NoAlert, tmp |-> <<>>, emitted |-> {}]

ThreadsOf(a) == {t \in 1..Len(threads) : threads[t].agent = a}
\* threads of agent a that have not left _run_loop
LiveThreadsOf(a) == {t \in ThreadsOf(a) : threads[t].pc # "exit"}

\* StartAll with a loop that stops one short: the last agent is never started
StartAll_SkipLast(ags, ths, ids) ==
  [ags2 |-> [i \in 1..Len(ags) |->
               IF i \in {ids[k] : k \in 1..(Len(ids) - 1)}
               THEN [ags[i] EXCEPT !.is_active = TRUE] ELSE ags[i]],
   ths2 |-> ths \o [k \in 1..(Len(ids) - 1) |-> NewThread(ids[k])]]

\* BaseAgent.start on every agent of the sequence ids, in order
StartAll(ags, ths, ids) ==
  [ags2 |-> [i \in 1..Len(ags) |->
               IF i \in Range(ids) THEN [ags[i] EXCEPT !.is_active = TRUE] ELSE ags[i]],
   ths2 |-> ths \o [k \in 1..Len(ids) |-> NewThread(ids[k])]]

\* BaseAgent.start(): lines 24-26
Start(a) ==
  /\ a \in 1..Len(agents)
  /\ Cardinality(ThreadsOf(a)) < MaxThreads
  /\ agents' = StartAll(agents, threads, <<a>>).ags2
  /\ threads' = StartAll(agents, threads, <<a>>).ths2
  /\ outcome' = [op |-> "start", error |-> "none"]
  /\ UNCHANGED <<orch_agents, orchVars, logVars, loop_tests, recent>>

\* stop() that flips the flag instead of clearing it
Stop_Toggle(a) ==
  /\ a \in 1..Len(agents)
  /\ agents' = [agents EXCEPT ![a].is_active = ~agents[a].is_active]
  /\ outcome' = [op |-> "stop", error |-> "none"]
  /\ UNCHANGED <<orch_agents, threads, orchVars, logVars, loop_tests, recent>>

\* BaseAgent.stop(): line 30
Stop(a) ==
  /\ a \in 1..Len(agents)
  /\ agents' = [agents EXCEPT ![a].is_active = FALSE]
  /\ outcome' = [op |-> "stop", error |-> "none"]
  /\ UNCHANGED <<orch_agents, threads, orchVars, logVars, loop_tests, recent>>

\* ------------------------------------------------------ BaseAgent._run_loop
SetPc(t, pc) == [threads EXCEPT ![t].pc = pc]

\* line 34: evaluate `while self.is_active`
LoopTest(t) ==
  /\ t \in 1..Len(threads)
  /\ threads[t].pc = "L34"
  /\ loop_tests < MaxLoopTests
  /\ loop_tests' = loop_tests + 1
  /\ threads' = SetPc(t, IF agents[threads[t].agent].is_active THEN "L36" ELSE "exit")
  /\ UNCHANGED <<agents, orch_agents, orchVars, logVars, recent, outcome>>

\* line 36: the guard was true; call self.check()
CheckBegin(t) ==
  /\ t \in 1..Len(threads)
  /\ threads[t].pc = "L36"
  /\ threads' = [threads EXCEPT ![t].pc = "check", ![t].emitted = {}]
  /\ UNCHANGED <<agents, orch_agents, orchVars, logVars, loop_tests, recent, outcome>>

\* the log entry of a notify() call made by thread t with alert number id
Emission(t, id) == [id |-> id, active |-> agents[threads[t].agent].is_active]

\* a callback that ignores the alerts of an agent whose flag was cleared
CheckEmit_DropLate(t) ==
  /\ t \in 1..Len(threads)
  /\ threads[t].pc = "check"
  /\ agents[threads[t].agent].notify = "_handle_notification"
  /\ created < MaxCalls
  /\ created' = created + 1
  /\ \E shape \in ShapesOf(agents[threads[t].agent].kind) :
       IF agents[threads[t].agent].is_active
       THEN HandleWhole(MkAlert(created + 1, shape))
       ELSE /\ appended' = Append(appended, MkAlert(created + 1, shape))
            /\ UNCHANGED <<alert_history, sent>>
  /\ threads' = [threads EXCEPT ![t].emitted = @ \cup {Emission(t, created + 1)}]
  /\ UNCHANGED <<agents, orch_agents, notification_channels, phone_number,
                 risk_tolerance, target_allocation, loop_tests, recent, outcome>>

\* inside check(): self.notify({...}) with the whole _handle_notification call
CheckEmit(t) ==
  /\ t \in 1..Len(threads)
  /\ threads[t].pc = "check"
  /\ agents[threads[t].agent].notify = "_handle_notification"
  /\ created < MaxCalls
  /\ created' = created + 1
  /\ \E shape \in ShapesOf(agents[threads[t].agent].kind) :
       HandleWhole(MkAlert(created + 1, shape))
  /\ threads' = [threads EXCEPT ![t].emitted = @ \cup {Emission(t, created + 1)}]
  /\ UNCHANGED <<agents, orch_agents, notification_channels, phone_number,
                 risk_tolerance, target_allocation, loop_tests, recent, outcome>>

\* check() returns; lines 37-38: record last_check, sleep check_interval
CheckReturn(t) ==
  /\ t \in 1..Len(threads)
  /\ threads[t].pc = "check"
  /\ threads' = SetPc(t, "L38")
  /\ UNCHANGED <<agents, orch_agents, orchVars, logVars, loop_tests, recent, outcome>>

\* an except branch that sleeps like the try branch
CheckRaise_SleepInterval(t) ==
  /\ t \in 1..Len(threads)
  /\ threads[t].pc = "check"
  /\ threads' = SetPc(t, "L38")
  /\ UNCHANGED <<agents, orch_agents, orchVars, logVars, loop_tests, recent, outcome>>

\* check() raises; lines 39-41: print the error, sleep 60 seconds
CheckRaise(t) ==
  /\ t \in 1..Len(threads)
  /\ threads[t].pc = "check"
  /\ threads' = SetPc(t, "L41")
  /\ UNCHANGED <<agents, orch_agents, orchVars, logVars, loop_tests, recent, outcome>>

\* time.sleep returns; back to the loop test
Wake(t) ==
  /\ t \in 1..Len(threads)
  /\ threads[t].pc \in {"L38", "L41"}
  /\ threads' = SetPc(t, "L34")
  /\ UNCHANGED <<agents, orch_agents, orchVars, logVars, loop_tests, recent, outcome>>

\* self.check_interval in seconds: check_interval_minutes * 60 of each class
check_interval(kind) ==
  CASE kind = "IdleAssetMonitorAgent" -> 5 * 60
    [] kind = "OpportunityScoutAgent" -> 5 * 60
    [] kind = "RiskMonitorAgent"      -> 10 * 60
    [] kind = "AutoRebalancerAgent"   -> 60 * 60
    [] kind = "YieldHarvesterAgent"   -> 60 * 60
    [] kind = "PriceMovementAgent"    -> 5 * 60

\* time.sleep(60) of the except branch
FallbackDelay == 60

\* the argument of the time.sleep call thread t is in; 0 when it is not asleep
SleepSeconds(t) ==
  IF threads[t].pc = "L38" THEN check_interval(agents[threads[t].agent].kind)
  ELSE IF threads[t].pc = "L41" THEN FallbackDelay
  ELSE 0

\* ------------------------------------------- AgentOrchestrator: the agents
\* activate_all_agents(): lines 281-292
activate_all_agents ==
  /\ Len(agents) < 6 * MaxActivations
  /\ LET n   == Len(agents)
         ags == agents \o [i \in 1..Len(Kinds) |-> NewAgent(Kinds[i])]
         ids == [i \in 1..Len(Kinds) |-> n + i]
     IN  /\ orch_agents' = ids
         /\ agents' = StartAll(ags, threads, ids).ags2
         /\ threads' = StartAll(ags, threads, ids).ths2
  /\ outcome' = [op |-> "activate_all_agents", error |-> "none"]
  /\ UNCHANGED <<orchVars, logVars, loop_tests, recent>>

\* deactivate_all_agents(): lines 296-298
deactivate_all_agents ==
  /\ agents' = [i \in 1..Len(agents) |->
                  IF i \in Range(orch_agents) THEN [agents[i] EXCEPT !.is_active = FALSE]
                  ELSE agents[i]]
  /\ outcome' = [op |-> "deactivate_all_agents", error |-> "none"]
  /\ UNCHANGED <<orch_agents, threads, orchVars, logVars, loop_tests, recent>>

\* ------------------------------- handle(), statement by statement per thread
InFlight == {t \in 1..Len(threads) : threads[t].pc \in HandlePcs}

\* inside check(): self.notify({...}) enters _handle_notification
Notify(t) ==
  /\ t \in 1..Len(threads)
  /\ threads[t].pc = "check"
  /\ agents[threads[t].agent].notify = "_handle_notification"
  /\ created < MaxCalls
  /\ created' = created + 1
  /\ \E shape \in ShapesOf(agents[threads[t].agent].kind) :
       threads' = [threads EXCEPT ![t].pc = "L303",
                                  ![t].alert = MkAlert(created + 1, shape),
                                  ![t].emitted = @ \cup {Emission(t, created + 1)}]
  /\ UNCHANGED <<agents, orch_agents, orchVars, appended, sent, loop_tests, recent, outcome>>

\* line 303: self.alert_history.append(alert)
H303(t) ==
  /\ t \in 1..Len(threads)
  /\ threads[t].pc = "L303"
  /\ alert_history' = Append(alert_history, threads[t].alert)
  /\ appended' = Append(appended, threads[t].alert)
  /\ threads' = SetPc(t, "L306")
  /\ UNCHANGED <<agents, orch_agents, notification_channels, phone_number, risk_tolerance,
                 target_allocation, created, sent, loop_tests, recent, outcome>>

\* line 306: if len(self.alert_history) > 100
H306(t) ==
  /\ t \in 1..Len(threads)
  /\ threads[t].pc = "L306"
  /\ threads' = SetPc(t, IF Len(alert_history) > HistoryCap THEN "L307" ELSE "L312")
  /\ UNCHANGED <<agents, orch_agents, orchVars, logVars, loop_tests, recent, outcome>>

\* line 307, right-hand side: build the new list self.alert_history[-100:]
H307_slice(t) ==
  /\ t \in 1..Len(threads)
  /\ threads[t].pc = "L307"
  /\ threads' = [threads EXCEPT ![t].pc = "L307s",
                                ![t].tmp = PySliceFrom(alert_history, -HistoryCap)]
  /\ UNCHANGED <<agents, orch_agents, orchVars, logVars, loop_tests, recent, outcome>>

\* line 307, assignment: bind self.alert_history to the new list
H307_store(t) ==
  /\ t \in 1..Len(threads)
  /\ threads[t].pc = "L307s"
  /\ alert_history' = threads[t].tmp
  /\ threads' = [threads EXCEPT ![t].pc = "L312", ![t].tmp = <<>>]
  /\ UNCHANGED <<agents, orch_agents, notification_channels, phone_number, risk_tolerance,
                 target_allocation, logVars, loop_tests, recent, outcome>>

\* lines 312-313: push
H312(t) ==
  /\ t \in 1..Len(threads)
  /\ threads[t].pc = "L312"
  /\ sent' = sent \cup (IF PushFires(notification_channels)
                        THEN {<<threads[t].alert.id, "push">>} ELSE {})
  /\ threads' = SetPc(t, "L315")
  /\ UNCHANGED <<agents, orch_agents, orchVars, created, appended, loop_tests, recent, outcome>>

\* lines 315-316: email
H315(t) ==
  /\ t \in 1..Len(threads)
  /\ threads[t].pc = "L315"
  /\ sent' = sent \cup (IF EmailFires(notification_channels)
                        THEN {<<threads[t].alert.id, "email">>} ELSE {})
  /\ threads' = SetPc(t, "L318")
  /\ UNCHANGED <<agents, orch_agents, orchVars, created, appended, loop_tests, recent, outcome>>

\* lines 318-319 and 329-336: sms; then return into check()
H318(t) ==
  /\ t \in 1..Len(threads)
  /\ threads[t].pc = "L318"
  /\ sent' = sent \cup (IF SmsFires(notification_channels, phone_number, threads[t].alert)
                        THEN {<<threads[t].alert.id, "sms">>} ELSE {})
  /\ threads' = [threads EXCEPT ![t].pc = "check", ![t].alert = NoAlert]
  /\ UNCHANGED <<agents, orch_agents, orchVars, created, appended, loop_tests, recent, outcome>>

\* thread t is at a channel test whose _send_* method will be called and
\* will reach its transport (the SMS method returns early without a number)
AtTransport(t) ==
  \/ threads[t].pc = "L312" /\ PushFires(notification_channels)
  \/ threads[t].pc = "L315" /\ EmailFires(notification_channels)
  \/ threads[t].pc = "L318" /\ SmsFires(notification_channels, phone_number, threads[t].alert)

\* a transport that takes the whole process down with it
TransportRaise_Crash(t) ==
  /\ t \in 1..Len(threads)
  /\ AtTransport(t)
  /\ threads' = [u \in 1..Len(threads) |-> [threads[u] EXCEPT !.pc = "exit"]]
  /\ UNCHANGED <<agents, orch_agents, orchVars, logVars, loop_tests, recent, outcome>>

\* the transport inside _send_push/_email/_sms_notification raises: nothing in
\* lines 300-336 or in check() catches it, so it unwinds to the except branch
\* of _run_loop, lines 39-41
TransportRaise(t) ==
  /\ t \in 1..Len(threads)
  /\ AtTransport(t)
  /\ threads' = [threads EXCEPT ![t].pc = "L41", ![t].alert = NoAlert]
  /\ UNCHANGED <<agents, orch_agents, orchVars, logVars, loop_tests, recent, outcome>>

\* get_recent_alerts(limit), called from a thread of the web layer
GetRecentAlerts(limit) ==
  /\ recent' = get_recent_alerts(alert_history, limit)
  /\ outcome' = [op |-> "get_recent_alerts", error |-> "none"]
  /\ UNCHANGED <<agents, orch_agents, threads, orchVars, logVars, loop_tests>>

\* ----------------------------------------- concurrent handle(): the scenario
\* history lengths the concurrent run starts from
Prefills == {99, 100}
\* limits the concurrent reader asks for
ReaderLimits == {1}

\* the k-th of the p alerts handled before the run starts; ids -p+1 .. 0
PrefillAlert(p, k) == MkAlert(k - p, AlertShapes[((k - 1) % Len(AlertShapes)) + 1])

\* the six monitors activated and each inside a check() call, after p alerts
\* were handled one after another
InitConc ==
  \E p \in Prefills :
    /\ agents = [i \in 1..Len(Kinds) |-> [NewAgent(Kinds[i]) EXCEPT !.is_active = TRUE]]
    /\ orch_agents = [i \in 1..Len(Kinds) |-> i]
    /\ threads = [i \in 1..Len(Kinds) |->
                  [NewThread(i) EXCEPT !.pc = IF i <= NumInCheck THEN "check" ELSE "L38"]]
    /\ alert_history = [k \in 1..p |-> PrefillAlert(p, k)]
    /\ notification_channels = [push |-> TRUE, email |-> TRUE, sms |-> TRUE]
    /\ phone_number = "+15550100"
    /\ risk_tolerance = "moderate"
    /\ target_allocation = AllocationTable("moderate")
    /\ created = 0
    /\ appended = [k \in 1..p |-> PrefillAlert(p, k)]
    /\ sent = UNION {Dispatch(notification_channels, phone_number, PrefillAlert(p, k)) :
                     k \in 1..p}
    /\ loop_tests = Len(Kinds)
    /\ recent = <<>>
    /\ outcome = [op |-> "activate_all_agents", error |-> "none"]

NextConc ==
  \/ \E t \in 1..Len(threads) : Notify(t)
  \/ \E t \in 1..Len(threads) : H303(t)
  \/ \E t \in 1..Len(threads) : H306(t)
  \/ \E t \in 1..Len(threads) : H307_slice(t)
  \/ \E t \in 1..Len(threads) : H307_store(t)
  \/ \E t \in 1..Len(threads) : H312(t)
  \/ \E t \in 1..Len(threads) : H315(t)
  \/ \E t \in 1..Len(threads) : H318(t)
  \/ \E limit \in ReaderLimits : GetRecentAlerts(limit)
SpecConc == InitConc /\ [][NextConc]_vars

\* C2: under concurrent handle() calls no alert is lost or duplicated: every
\* alert that line 303 appended is in the history exactly once as long as
\* fewer than 100 alerts were appended after it.
C2_NoAlertLostOrDuplicated ==
  \A i \in 1..Len(appended) :
    (Len(appended) - i < HistoryCap) => Count(alert_history, appended[i]) = 1

\* C3: the history never holds more than 100 alerts, not even between the
\* statements of a handle() call, and no reader is handed more than 100.
C3_NeverOverCapacity ==
  /\ Len(alert_history) <= HistoryCap
  /\ Len(recent) <= HistoryCap

\* the alerts whose _handle_notification call has appended but not yet returned
Undispatched ==
  {threads[t].alert : t \in {u \in 1..Len(threads) :
                               threads[u].pc \in HandlePcs \ {"L303"}}}

\* C4: append and dispatch of one alert are atomic for a concurrent reader:
\* get_recent_alerts never returns an alert whose dispatch is still to be
\* completed, and between the append and the end of the dispatch of one alert
\* no other call is between its own append and the end of its dispatch.
C4_AppendDispatchAtomic ==
  /\ Range(recent) \cap Undispatched = {}
  /\ Cardinality(Undispatched) <= 1

\* ------------------------------------------- failures inside a check cycle
\* the six monitors activated on an empty history, the first ones inside a
\* check() call, the others asleep after a cycle without alerts
InitFail ==
  /\ agents = [i \in 1..Len(Kinds) |-> [NewAgent(Kinds[i]) EXCEPT !.is_active = TRUE]]
  /\ orch_agents = [i \in 1..Len(Kinds) |-> i]
  /\ threads = [i \in 1..Len(Kinds) |->
                [NewThread(i) EXCEPT !.pc = IF i <= NumInCheck THEN "check" ELSE "L38"]]
  /\ alert_history = <<>>
  /\ notification_channels = [push |-> TRUE, email |-> TRUE, sms |-> TRUE]
  /\ phone_number = "+15550100"
  /\ risk_tolerance = "moderate"
  /\ target_allocation = AllocationTable("moderate")
  /\ created = 0
  /\ appended = <<>>
  /\ sent = {}
  /\ loop_tests = Len(Kinds)
  /\ recent = <<>>
  /\ outcome = [op |-> "activate_all_agents", error |-> "none"]

\* the history stays far below 100 alerts: line 307 is never reached
NextFail ==
  \/ \E t \in 1..Len(threads) : Notify(t) /\ created < MaxFailCalls
  \/ \E t \in 1..Len(threads) : H303(t)
  \/ \E t \in 1..Len(threads) : H306(t)
  \/ \E t \in 1..Len(threads) : H312(t)
  \/ \E t \in 1..Len(threads) : H315(t)
  \/ \E t \in 1..Len(threads) : H318(t)
  \/ \E t \in 1..Len(threads) : TransportRaise(t)
  \/ \E t \in 1..Len(threads) : CheckRaise(t)
  \/ \E t \in 1..Len(threads) : CheckReturn(t)
  \/ \E limit \in ReaderLimits : GetRecentAlerts(limit)
SpecFail == InitFail /\ [][NextFail]_vars

\* C14: a failure of a push, email or SMS transport inside handle(alert) does
\* not reach the monitor: the thread goes on with the handle() call or with its
\* check cycle, not to the except branch of its loop, and the alert was
\* appended to the history before the transport was tried.
C14_TransportFailureContained ==
  [][\A t \in 1..Len(threads) :
       TransportRaise(t) =>
         /\ threads'[t].pc \in HandlePcs \cup {"check"}
         /\ threads[t].alert \in Range(appended)]_vars

\* an error in the cycle of thread t's monitor
ErrorStep(t) == CheckRaise(t) \/ TransportRaise(t)

InitMon ==
  \E kind \in Range(Kinds) :
    /\ agents = <<NewAgent(kind)>>
    /\ orch_agents = <<>>
    /\ threads = <<>>
    /\ alert_history = <<>>
    /\ notification_channels = [push |-> TRUE, email |-> TRUE, sms |-> TRUE]
    /\ phone_number = "+15550100"
    /\ risk_tolerance = "moderate"
    /\ target_allocation = AllocationTable("moderate")
    /\ created = 0
    /\ appended = <<>>
    /\ sent = {}
    /\ loop_tests = 0
    /\ recent = <<>>
    /\ outcome = [op |-> "__init__", error |-> "none"]

LoopStep ==
  \/ \E t \in 1..Len(threads) : LoopTest(t)
  \/ \E t \in 1..Len(threads) : CheckBegin(t)
  \/ \E t \in 1..Len(threads) : CheckEmit(t) /\ created < MaxMonCalls
  \/ \E t \in 1..Len(threads) : CheckReturn(t)
  \/ \E t \in 1..Len(threads) : CheckRaise(t)
  \/ \E t \in 1..Len(threads) : Wake(t)

NextMon ==
  \/ \E a \in 1..Len(agents) : Start(a)
  \/ \E a \in 1..Len(agents) : Stop(a)
  \/ LoopStep
SpecMon == InitMon /\ [][NextMon]_vars

\* the threads of monitor a that are executing a check cycle
InCycle(a) == {t \in ThreadsOf(a) : threads[t].pc \in {"check"} \cup HandlePcs}

\* C5: the cycles of one monitor run strictly one after another, whatever
\* start() and stop() calls were made: no two check() executions of the same
\* monitor are in progress at the same time.
C5_CyclesSequential ==
  \A a \in 1..Len(agents) : Cardinality(InCycle(a)) <= 1

\* C6: once stop() has returned, and until start() is called again, no check
\* cycle of the monitor begins: a thread enters check() only while the
\* monitor's is_active flag is set.
C6_NoCycleAfterStop ==
  [][\A t \in 1..Len(threads) :
       (threads[t].pc = "L36" /\ threads'[t].pc = "check")
         => agents[threads[t].agent].is_active]_vars

\* C7: start() on a monitor that is already running fails with AlreadyRunning
\* and does not begin a second periodic execution.
C7_StartTwiceFails ==
  [][\A a \in 1..Len(agents) :
       (Start(a) /\ agents[a].is_active)
         => (outcome'.error = "AlreadyRunning" /\ threads' = threads)]_vars

\* C11: stop() is idempotent: it raises nothing and leaves the monitor stopped;
\* on a monitor that is already stopped or was never started it changes
\* nothing, so that a second stop() in a row leaves the state of the first.
C11_StopIdempotent ==
  [][\A a \in 1..Len(agents) :
       Stop(a) =>
         /\ ~agents'[a].is_active
         /\ outcome'.error = "none"
         /\ (~agents[a].is_active
               => UNCHANGED <<agents, orch_agents, threads, orchVars, logVars>>)]_vars

\* stop() was called on a monitor that was never started
C11_Witness ==
  /\ outcome.op = "stop"
  /\ Len(threads) = 0
  /\ \A a \in 1..Len(agents) : ~agents[a].is_active

\* C12: an error raised by check() does not leave _run_loop: the thread is
\* then asleep for the fixed 60 seconds, not for its check interval, and goes
\* back to the loop test afterwards; after a check() that returned it sleeps
\* its configured interval; a loop thread ends only by finding is_active
\* cleared at the loop test.
C12_FailedCycleWaitsFallback ==
  [][\A t \in 1..Len(threads) :
       /\ CheckRaise(t) => (threads'[t].pc # "exit" /\ SleepSeconds(t)' = FallbackDelay)
       /\ CheckReturn(t)
            => SleepSeconds(t)' = check_interval(agents[threads[t].agent].kind)
       /\ (Wake(t) /\ threads[t].pc = "L41") => threads'[t].pc = "L34"
       /\ (threads[t].pc # "exit" /\ threads'[t].pc = "exit")
            => (threads[t].pc = "L34" /\ ~agents[threads[t].agent].is_active)]_vars

\* a running monitor asleep after a failed cycle, for less than its interval
C12_Witness ==
  \E t \in 1..Len(threads) :
    /\ threads[t].pc = "L41"
    /\ agents[threads[t].agent].is_active
    /\ SleepSeconds(t) = 60
    /\ SleepSeconds(t) < check_interval(agents[threads[t].agent].kind)

\* the ids of the alerts in the history
HistoryIds == {alert_history[i].id : i \in 1..Len(alert_history)}

\* C13: a check cycle that ends in an error contributes no alert: when check()
\* raises, none of the alerts the cycle passed to notify() is in the history
\* and none was dispatched on any channel.
C13_FailedCycleNoAlerts ==
  [][\A t \in 1..Len(threads) :
       CheckRaise(t) =>
         \A e \in threads[t].emitted :
           /\ e.id \notin HistoryIds'
           /\ \A ch \in {"push", "email", "sms"} : <<e.id, ch>> \notin sent']_vars

\* ------------------------------------------- the orchestrator and its agents
\* AgentOrchestrator(wallet, channels) with the default phone number and tag
InitOrch == Constructed([push |-> TRUE, email |-> TRUE, sms |-> TRUE], "", "moderate")

\* the loop threads that are scheduled while the orchestrator's calls are
\* explored: those of the first and of the fourth agent of each activation
OrchLoopThreads ==
  {t \in 1..Len(threads) :
     agents[threads[t].agent].kind \in {"IdleAssetMonitorAgent", "AutoRebalancerAgent"}}

NextOrch ==
  \/ activate_all_agents
  \/ deactivate_all_agents
  \/ \E t \in OrchLoopThreads : LoopTest(t) /\ loop_tests < MaxOrchLoopTests
  \/ \E t \in OrchLoopThreads : CheckBegin(t)
  \/ \E t \in OrchLoopThreads : CheckEmit(t) /\ created < MaxOrchCalls
  \/ \E t \in OrchLoopThreads : CheckReturn(t)
  \/ \E t \in OrchLoopThreads : CheckRaise(t)
  \/ \E t \in OrchLoopThreads : Wake(t)
SpecOrch == InitOrch /\ [][NextOrch]_vars

Running == {a \in 1..Len(agents) : agents[a].is_active}

\* C8: activate_all_agents() while agents are running fails with AlreadyActive
\* and constructs and starts no further monitor.
C8_ActivateTwiceFails ==
  [][(activate_all_agents /\ Running # {})
       => (outcome'.error = "AlreadyActive" /\ agents' = agents /\ threads' = threads)]_vars

\* C9: activate_all_agents() with no agent running leaves exactly one running
\* instance of each of the six agent classes, each with one loop thread just
\* spawned and each wired to _handle_notification; they are the agents the
\* orchestrator holds.
C9_ActivateStartsSix ==
  [][(activate_all_agents /\ Running = {})
       => LET new == {a \in 1..Len(agents') : agents'[a].is_active}
          IN  /\ Cardinality(new) = Len(Kinds)
              /\ new = {orch_agents'[i] : i \in 1..Len(orch_agents')}
              /\ \A k \in Range(Kinds) :
                   Cardinality({a \in new : agents'[a].kind = k}) = 1
              /\ \A a \in new :
                   /\ agents'[a].notify = "_handle_notification"
                   /\ Cardinality({t \in 1..Len(threads') :
                                     threads'[t].agent = a /\ threads'[t].pc = "L34"}) = 1
              /\ outcome'.error = "none"]_vars

\* a second activation, made after the first six monitors were stopped
C9_Witness ==
  /\ outcome.op = "activate_all_agents"
  /\ Len(agents) = 2 * Len(Kinds)
  /\ Running = (Len(Kinds) + 1)..(2 * Len(Kinds))

\* C10: after deactivate_all_agents() has returned no monitor this
\* orchestrator ever started is running, and on an orchestrator without
\* running monitors the call raises nothing and changes nothing.
C10_DeactivateStopsAll ==
  /\ [](outcome.op = "deactivate_all_agents" => Running = {})
  /\ [][(deactivate_all_agents /\ Running = {})
          => (outcome'.error = "none" /\ UNCHANGED <<agents, orch_agents, threads, orchVars>>)]_vars

\* C16: an alert that a check cycle still in progress hands to
\* _handle_notification after deactivate_all_agents() has cleared its agent's
\* flag is accepted without error and recorded like any other: appended to the
\* history under the 100-alert rule and dispatched on the channels the
\* preferences and its priority select.
C16_LateAlertRecorded ==
  [][\A t \in 1..Len(threads) :
       (CheckEmit(t) /\ ~agents[threads[t].agent].is_active) =>
         LET alert == appended'[Len(appended')]
         IN  /\ Len(appended') = Len(appended) + 1
             /\ alert_history' = HandleHistory(alert_history, alert)
             /\ sent' = sent \cup Dispatch(notification_channels, phone_number, alert)
             /\ outcome' = outcome]_vars

\* deactivate_all_agents() has returned, nothing runs, and the history holds
\* an alert that was handed over while its agent's flag was already cleared
C16_Witness ==
  /\ outcome = [op |-> "deactivate_all_agents", error |-> "none"]
  /\ Running = {}
  /\ \E t \in 1..Len(threads) :
       \E e \in threads[t].emitted :
         /\ ~e.active
         /\ e.id \in HistoryIds
         /\ <<e.id, "push">> \in sent

\* ------------------------------------------------ get_recent_alerts(limit)
\* numbers of alerts handled one after another before the reader's first call
HandledCounts == {0, 150}
\* the limits the web layer passes
RecentLimits == {-1, 0, 1, 5, 101, 150}

\* an orchestrator that has handled n alerts one after another
InitRecent ==
  \E n \in HandledCounts :
    /\ agents = <<>>
    /\ orch_agents = <<>>
    /\ threads = <<>>
    /\ alert_history = LastN([k \in 1..n |-> StreamAlert(k)], HistoryCap)
    /\ notification_channels = [push |-> TRUE, email |-> TRUE, sms |-> FALSE]
    /\ phone_number = ""
    /\ risk_tolerance = "moderate"
    /\ target_allocation = AllocationTable("moderate")
    /\ created = n
    /\ appended = [k \in 1..n |-> StreamAlert(k)]
    /\ sent = UNION {Dispatch(notification_channels, phone_number, StreamAlert(k)) :
                     k \in 1..n}
    /\ loop_tests = 0
    /\ recent = <<>>
    /\ outcome = [op |-> "__init__", error |-> "none"]

NextRecent ==
  \/ SeqHandle
  \/ \E limit \in RecentLimits : GetRecentAlerts(limit)
SpecRecent == InitRecent /\ [][NextRecent]_vars

\* C17: for every integer limit get_recent_alerts(limit) returns the last
\* min(max(limit, 0), len(history)) alerts of the history, oldest first:
\* none for limit 0 or below, the whole history for a limit above its length.
C17_RecentIsClampedTail ==
  [][\A limit \in RecentLimits :
       GetRecentAlerts(limit)
         => (/\ recent' = LastN(alert_history, Max(limit, 0))
             /\ outcome'.error = "none")]_vars

\* ------------------------------------------------ update_settings(settings)
\* d[key] = value on a dict
DictPut(d, key, value) ==
  [k \in DOMAIN d \cup {key} |-> IF k = key THEN value ELSE d[k]]

\* the dict after `if key in settings: d[field] = settings[key]`
PutIfPresent(d, field, settings, key) ==
  IF key \in DOMAIN settings THEN DictPut(d, field, settings[key]) ELSE d

\* the settings dicts the web layer passes; the first one is empty
SettingsInputs ==
  { <<>>,
    [riskTolerance |-> "aggressive"],
    [riskTolerance |-> "conservative"],
    [phoneNumber |-> "+15550100"],
    [smsNotifications |-> FALSE],
    [emailNotifications |-> FALSE, pushNotifications |-> TRUE],
    [phoneNumber |-> "", riskTolerance |-> "moderate", emailNotifications |-> TRUE,
     smsNotifications |-> TRUE, pushNotifications |-> FALSE] }

\* update_settings that also writes the channels missing from the settings
update_settings_ResetAbsent(settings) ==
  /\ phone_number' = IF "phoneNumber" \in DOMAIN settings
                     THEN settings["phoneNumber"] ELSE phone_number
  /\ risk_tolerance' = IF "riskTolerance" \in DOMAIN settings
                       THEN settings["riskTolerance"] ELSE risk_tolerance
  /\ notification_channels' =
       [email |-> DictGet(settings, "emailNotifications", TRUE),
        sms   |-> DictGet(settings, "smsNotifications", FALSE),
        push  |-> DictGet(settings, "pushNotifications", TRUE)]
  /\ outcome' = [op |-> "update_settings", error |-> "none"]
  /\ UNCHANGED <<agents, orch_agents, threads, alert_history, target_allocation,
                 logVars, loop_tests, recent>>

\* update_settings(settings): lines 344-357
update_settings(settings) ==
  /\ phone_number' = IF "phoneNumber" \in DOMAIN settings
                     THEN settings["phoneNumber"] ELSE phone_number
  /\ risk_tolerance' = IF "riskTolerance" \in DOMAIN settings
                       THEN settings["riskTolerance"] ELSE risk_tolerance
  /\ notification_channels' =
       PutIfPresent(
         PutIfPresent(
           PutIfPresent(notification_channels, "email", settings, "emailNotifications"),
           "sms", settings, "smsNotifications"),
         "push", settings, "pushNotifications")
  /\ outcome' = [op |-> "update_settings", error |-> "none"]
  /\ UNCHANGED <<agents, orch_agents, threads, alert_history, target_allocation,
                 logVars, loop_tests, recent>>

\* self.target_allocation of the AutoRebalancerAgent a: the dict object passed
\* on line 287 and stored on line 165, which is the object the orchestrator's
\* self.target_allocation names; no statement rebinds or mutates either
RebalancerTarget(a) == target_allocation

\* the loop threads of the AutoRebalancerAgent objects
RebalancerThreads ==
  {t \in 1..Len(threads) : agents[threads[t].agent].kind = "AutoRebalancerAgent"}

\* an orchestrator constructed with the default phone number and tag
InitSettings ==
  \E nc \in ChannelConfigs : Constructed(nc, "", "moderate")

NextSettings ==
  \/ activate_all_agents /\ Len(agents) = 0
  \/ \E settings \in SettingsInputs : update_settings(settings)
  \/ \E t \in RebalancerThreads : LoopTest(t)
  \/ \E t \in RebalancerThreads : CheckBegin(t)
  \/ \E t \in RebalancerThreads : CheckEmit(t)
  \/ \E t \in RebalancerThreads : CheckReturn(t)
  \/ \E t \in RebalancerThreads : Wake(t)
SpecSettings == InitSettings /\ [][NextSettings]_vars

\* C18: every check cycle of the running AutoRebalancerAgent starts with the
\* target allocation derived from the orchestrator's current risk tolerance,
\* also after update_settings changed the tolerance and without a restart.
C18_RebalancerFollowsTolerance ==
  [][\A t \in RebalancerThreads :
       CheckBegin(t) => RebalancerTarget(threads[t].agent) = AllocationTable(risk_tolerance)]_vars

\* C19: update_settings(settings) sets the phone number, the risk tolerance
\* and the email, sms and push switches that are present in settings to the
\* given values and leaves each absent one as it was (a channel key missing
\* from the preferences stays missing); with empty settings nothing of the
\* orchestrator changes; it raises nothing.
C19_SettingsSetExactlyPresent ==
  [][\A settings \in SettingsInputs :
       update_settings(settings) =>
         /\ IF "phoneNumber" \in DOMAIN settings
            THEN phone_number' = settings["phoneNumber"] ELSE UNCHANGED phone_number
         /\ IF "riskTolerance" \in DOMAIN settings
            THEN risk_tolerance' = settings["riskTolerance"] ELSE UNCHANGED risk_tolerance
         /\ \A p \in {<<"email", "emailNotifications">>, <<"sms", "smsNotifications">>,
                       <<"push", "pushNotifications">>} :
              IF p[2] \in DOMAIN settings
              THEN /\ p[1] \in DOMAIN notification_channels'
                   /\ notification_channels'[p[1]] = settings[p[2]]
              ELSE /\ (p[1] \in DOMAIN notification_channels')
                        = (p[1] \in DOMAIN notification_channels)
                   /\ p[1] \in DOMAIN notification_channels
                        => notification_channels'[p[1]] = notification_channels[p[1]]
         /\ DOMAIN settings = {} => UNCHANGED orchVars
         /\ UNCHANGED <<alert_history, agents, orch_agents, threads>>
         /\ outcome'.error = "none"]_vars

\* settings with only a phone number were applied to preferences that have no
\* push and no email key: the number is set, the keys are still missing
C19_Witness ==
  /\ outcome.op = "update_settings"
  /\ phone_number = "+15550100"
  /\ risk_tolerance = "moderate"
  /\ notification_channels = [sms |-> TRUE]

\* ------------------------------------------------------- the SMS channel
\* C20: the SMS channel fires for an alert only when the sms switch of the
\* preferences is on and the alert's priority is HIGH or CRITICAL: never for a
\* LOW or MEDIUM alert whatever the preferences, never with the switch off or
\* missing.
C20_SmsOnlyUrgentAndEnabled ==
  [][\A e \in sent' \ sent :
       e[2] = "sms" =>
         /\ DictGet(notification_channels, "sms", FALSE)
         /\ \E i \in 1..Len(appended') :
              /\ appended'[i].id = e[1]
              /\ appended'[i].priority \in {"HIGH", "CRITICAL"}]_vars

\* with the sms switch on, a CRITICAL alert went out by SMS and a LOW and a
\* MEDIUM alert did not
C20_Witness ==
  /\ DictGet(notification_channels, "sms", FALSE)
  /\ \E i, j, k \in 1..Len(appended) :
       /\ appended[i].priority = "CRITICAL" /\ <<appended[i].id, "sms">> \in sent
       /\ appended[j].priority = "LOW" /\ <<appended[j].id, "sms">> \notin sent
       /\ appended[k].priority = "MEDIUM" /\ <<appended[k].id, "sms">> \notin sent

\* C21: every HIGH or CRITICAL alert handled while the sms switch is on is
\* sent by SMS, whatever the other settings are, the phone number included.
C21_UrgentAlwaysBySms ==
  \A i \in 1..Len(appended) :
    (appended[i].priority \in {"HIGH", "CRITICAL"}
       /\ DictGet(notification_channels, "sms", FALSE))
      => <<appended[i].id, "sms">> \in sent

\* ---------------------------------------------- the push and email channels
\* C22: for every handled alert the push channel fires exactly when the push
\* switch is on (a missing key counts as on) and the email channel exactly
\* when the email switch is on, whatever the alert's priority and whatever
\* the other switch says.
C22_PushEmailFollowSwitch ==
  \A i \in 1..Len(appended) :
    /\ (<<appended[i].id, "push">> \in sent) = DictGet(notification_channels, "push", TRUE)
    /\ (<<appended[i].id, "email">> \in sent) = DictGet(notification_channels, "email", TRUE)

\* with push off and email on, alerts of all four priorities went out by
\* email and none by push
C22_Witness ==
  /\ ~DictGet(notification_channels, "push", TRUE)
  /\ DictGet(notification_channels, "email", TRUE)
  /\ \A p \in Range(Priorities) :
       \E i \in 1..Len(appended) :
         /\ appended[i].priority = p
         /\ <<appended[i].id, "email">> \in sent
         /\ <<appended[i].id, "push">> \notin sent

\* ------------------------------------------------------------ the SMS body
\* lengths of the alert messages handed to handle()
MessageLens == {0, 1, 119, 120, 121, 200}

\* a text of 224 characters, "abcdefg" over and over
Filler ==
  LET p7   == "abcdefg"
      p28  == p7 \o p7 \o p7 \o p7
      p112 == p28 \o p28 \o p28 \o p28
  IN  p112 \o p112

\* a message text of n characters
MakeMessage(n) == SubSeq(Filler, 1, n)

\* an alert dict with its message text
MkTextAlert(id, shape, message) ==
  [id |-> id, type |-> shape.type, priority |-> shape.priority, message |-> message]

\* Python s[:stop] for stop >= 0
PySliceTo(s, stop) == SubSeq(s, 1, Min(stop, Len(s)))

\* an SMS text built from the whole message
sms_message_NoCut(alert) ==
  "[" \o alert.priority \o "] Stellar Compass: " \o alert.message

\* line 335: f"[{alert['priority']}] Stellar Compass: {alert['message'][:120]}"
sms_message(alert) ==
  "[" \o alert.priority \o "] Stellar Compass: " \o PySliceTo(alert.message, 120)

\* one handle() call with an alert that carries a text; outcome records the
\* SMS text line 336 hands to the transport, when it gets that far
SmsHandle ==
  /\ created < MaxSmsHandled
  /\ created' = created + 1
  /\ \E shape \in Range(AlertShapes), n \in MessageLens :
       LET alert == MkTextAlert(created + 1, shape, MakeMessage(n))
       IN  /\ HandleWhole(alert)
           /\ outcome' = IF SmsFires(notification_channels, phone_number, alert)
                         THEN [op |-> "_send_sms_notification", error |-> "none",
                               sms_message |-> sms_message(alert)]
                         ELSE [op |-> "_handle_notification", error |-> "none"]
  /\ UNCHANGED <<agents, orch_agents, threads, notification_channels, phone_number,
                 risk_tolerance, target_allocation, loop_tests, recent>>

InitSms == InitOrchestrator
NextSms == SmsHandle
SpecSms == InitSms /\ [][NextSms]_vars

UnitBits == 60

\* the binary exponents of the magnitudes that occur: 2^-11 up to 16
Exponents == (0 - 11)..3

\* 2^n modulo m, by repeated squaring
RECURSIVE PowMod2(_, _)
PowMod2(n, m) ==
  IF n = 0 THEN 1 % m ELSE ((PowMod2(n \div 2, m) ^ 2) * (1 + (n % 2))) % m

\* 2^j <= k / S < 2^(j + 1)
InBinade(S, k, j) ==
  IF j >= 0 THEN S * 2^j <= k /\ k < S * 2^(j + 1)
  ELSE S <= k * 2^(0 - j) /\ k * 2^(0 - j - 1) < S

\* k / S = 2^j
IsPower(S, k, j) == IF j >= 0 THEN k = S * 2^j ELSE k * 2^(0 - j) = S

\* 2^e <= v < 2^(e + 1) for a positive value v
HasExponent(S, v, e) ==
  \/ InBinade(S, v.k, e) /\ ~(v.d < 0 /\ IsPower(S, v.k, e))
  \/ v.d < 0 /\ IsPower(S, v.k, e + 1)

Exponent(S, v) == CHOOSE e \in Exponents : HasExponent(S, v, e)

Neg(v) == [k |-> 0 - v.k, d |-> 0 - v.d]
FloatAbs(v) == IF v.k < 0 THEN Neg(v) ELSE v

\* the multiple of 2^-p nearest to a positive value v, ties to the even
\* multiple: R is the residue of v modulo 2^-p and R2 its residue modulo
\* 2^-(p-1), both in units
RoundTo(S, v, p) ==
  LET g  == UnitBits - p
      m  == S * 2^g
      R  == (2^g * ((v.k * PowMod2(p, S)) % S) + v.d) % m
      R2 == (2^(g + 1) * ((v.k * PowMod2(p - 1, S)) % S) + v.d) % (2 * m)
      up == 2 * R > m \/ (2 * R = m /\ R2 >= m)
  IN  [k |-> v.k, d |-> IF up THEN v.d + m - R ELSE v.d - R]

\* round to nearest, ties to even, to the 53 significant bits of a binary64
FloatRound(S, x) ==
  IF x.k = 0 THEN x
  ELSE CHOOSE r \in {IF x.k < 0 THEN Neg(RoundTo(S, Neg(x), 52 - e)) ELSE RoundTo(S, x, 52 - e) :
                       e \in {Exponent(S, FloatAbs(x))}} : TRUE

\* the float of the decimal k / S, 1/256 <= k / S < 16
Float(S, k) == FloatRound(S, [k |-> k, d |-> 0])

\* a + b: a sum that is no larger in exponent than its smaller operand is a
\* multiple of that operand's last bit and fits 53 bits, so it is exact
FloatAdd(S, a, b) ==
  LET e == [k |-> a.k + b.k, d |-> a.d + b.d]
      exact == \/ a.k = 0 \/ b.k = 0 \/ e.k = 0
               \/ /\ Exponent(S, FloatAbs(e)) <= Exponent(S, FloatAbs(a))
                  /\ Exponent(S, FloatAbs(e)) <= Exponent(S, FloatAbs(b))
  IN  IF exact THEN e ELSE FloatRound(S, e)

FloatSub(S, a, b) == FloatAdd(S, a, Neg(b))
FloatLess(a, b) == a.k < b.k \/ (a.k = b.k /\ a.d < b.d)

\* abs(x / y) >= c for floats x, y # 0 and a float c > 0 that is no power of
\* two: the quotient rounds to c or above exactly when it exceeds the midpoint
\* of c and the float below c (a quotient of two floats is never a midpoint)
FloatRatioReaches(S, x, y, c) ==
  LET ax == FloatAbs(x)
      ay == FloatAbs(y)
      dm == c.d - S * 2^(UnitBits - (52 - Exponent(S, c)) - 1)
      A  == ax.k * S - c.k * ay.k
      B  == ax.d * S - c.k * ay.d - dm * ay.k
  IN  IF A # 0 THEN A > 0
      ELSE IF B # 0 THEN B > 0
      ELSE (dm < 0 /\ ay.d > 0) \/ (dm > 0 /\ ay.d < 0)

\* ------------------------------------------------- the six check() methods
\* Days are integers. An APY is given in tenths of a percentage point, a
\* portfolio fraction and a reward in hundredths, a price in thousandths of a
\* dollar; each stands for the float of that decimal. A result is the alerts
\* the call passed to notify(), in order, the agent's baseline dict when the
\* call ended, and the exception that ended it, if any.
Abs(x) == IF x < 0 THEN -x ELSE x

\* the dict passed to notify(): type, priority, and the key its title names
Alert(type, priority, key) == [type |-> type, priority |-> priority, key |-> key]

\* an idle check that still rates 60 idle days MEDIUM
idle_check_Late(idle_assets) ==
  LET hits == SelectSeq(idle_assets, LAMBDA asset : asset.days_idle >= 30)
  IN  [alerts |-> [i \in 1..Len(hits) |->
                    Alert("IDLE_ASSET",
                          IF hits[i].days_idle <= 60 THEN "MEDIUM" ELSE "HIGH",
                          hits[i].asset)],
       state |-> <<>>, error |-> "none"]

\* IdleAssetMonitorAgent.check: lines 57-71
idle_check(idle_assets) ==
  LET hits == SelectSeq(idle_assets, LAMBDA asset : asset.days_idle >= 30)
  IN  [alerts |-> [i \in 1..Len(hits) |->
                    Alert("IDLE_ASSET",
                          IF hits[i].days_idle < 60 THEN "MEDIUM" ELSE "HIGH",
                          hits[i].asset)],
       state |-> <<>>, error |-> "none"]

\* the APYs a data source reports, in tenths of a point
ApyValues == {60, 63, 80, 83, 100, 101, 104}

\* lines 101 and 103: increase = current_apy - previous_apy; increase > 2
increase_above_2 ==
  [current_apy \in ApyValues |-> [previous_apy \in ApyValues |->
     \E current \in {Float(10, current_apy)}, previous \in {Float(10, previous_apy)} :
       \E increase \in {FloatSub(10, current, previous)} :
         FloatLess(Float(10, 20), increase)]]

\* lines 100-104: protocol in self.tracked_apys and increase > 2
apy_spiked(opp, tracked_apys) ==
  /\ opp.protocol \in DOMAIN tracked_apys
  /\ increase_above_2[opp.apy][tracked_apys[opp.protocol]]

\* OpportunityScoutAgent.check: lines 91-114
RECURSIVE scout_check(_, _, _)
scout_check(opportunities, tracked_apys, alerts) ==
  IF opportunities = <<>>
  THEN [alerts |-> alerts, state |-> tracked_apys, error |-> "none"]
  ELSE LET opp == Head(opportunities)
           spike == apy_spiked(opp, tracked_apys)
       IN  scout_check(Tail(opportunities),
                       DictPut(tracked_apys, opp.protocol, opp.apy),
                       IF spike THEN Append(alerts, Alert("APY_SPIKE", "HIGH", opp.protocol))
                       ELSE alerts)

\* a risk check that rates every alert HIGH
risk_check_AllHigh(risks) ==
  LET hits == SelectSeq(risks, LAMBDA risk : risk.severity \in {"HIGH", "CRITICAL"})
  IN  [alerts |-> [i \in 1..Len(hits) |-> Alert("RISK_ALERT", "HIGH", hits[i].title)],
       state |-> <<>>, error |-> "none"]

\* RiskMonitorAgent.check: lines 132-145
risk_check(risks) ==
  LET hits == SelectSeq(risks, LAMBDA risk : risk.severity \in {"HIGH", "CRITICAL"})
  IN  [alerts |-> [i \in 1..Len(hits) |->
                    Alert("RISK_ALERT",
                          IF hits[i].severity = "CRITICAL" THEN "CRITICAL" ELSE "HIGH",
                          hits[i].title)],
       state |-> <<>>, error |-> "none"]

\* the portfolio fractions a data source reports and the target fractions of
\* lines 273-277, in hundredths
FractionValues == {0, 10, 20, 29, 30, 35, 40, 45, 50, 60, 61, 100}
TargetValues == {0, 10, 20, 30, 40, 50, 80}

\* lines 174 and 176: drift = abs(current_pct - target_pct); drift > 0.10
drift_above_threshold ==
  [current_pct \in FractionValues |-> [target_pct \in TargetValues |->
     \E current \in {Float(100, current_pct)}, target \in {Float(100, target_pct)},
        drift_threshold \in {Float(100, 10)} :
       \E drift \in {FloatAbs(FloatSub(100, current, target))} :
         FloatLess(drift_threshold, drift)]]

\* AutoRebalancerAgent.check: lines 168-184; target is iterated in the order
\* its dict was written on lines 273-277
rebalancer_check(current_allocation, target) ==
  LET hits == SelectSeq(<<"LOW", "MODERATE", "HIGH">>,
                        LAMBDA risk_level :
                          drift_above_threshold[DictGet(current_allocation, risk_level, 0)]
                                               [target[risk_level]])
  IN  [alerts |-> [i \in 1..Len(hits) |-> Alert("REBALANCE", "MEDIUM", hits[i])],
       state |-> <<>>, error |-> "none"]

\* lines 204 and 206: sum(r['value_usd'] for r in unclaimed) adds the values
\* to total, from 0, one after the other; total >= self.min_claim_threshold
RECURSIVE SumReaches(_, _)
SumReaches(unclaimed, total) ==
  IF unclaimed = <<>> THEN ~FloatLess(total, [k |-> 100, d |-> 0])
  ELSE \E value_usd \in {Float(100, Head(unclaimed).value_usd)} :
         \E next \in {FloatAdd(100, total, value_usd)} :
           SumReaches(Tail(unclaimed), next)

\* the reward lists a data source reports, values in cents
RewardLists ==
  {<<>>, <<[value_usd |-> 40], [value_usd |-> 30], [value_usd |-> 30]>>,
   <<[value_usd |-> 57], [value_usd |-> 35], [value_usd |-> 8]>>}
  \cup {<<[value_usd |-> v]>> : v \in {0, 99, 100, 102}}
  \cup {<<[value_usd |-> v], [value_usd |-> w]>> : v \in {40, 60}, w \in {40, 60}}

\* lines 204 and 206: total_unclaimed >= self.min_claim_threshold
total_reaches_threshold ==
  [unclaimed \in RewardLists |->
     SumReaches(unclaimed, [k |-> 0, d |-> 0])]

\* YieldHarvesterAgent.check: lines 200-214
harvester_check(unclaimed) ==
  [alerts |-> IF total_reaches_threshold[unclaimed]
              THEN <<Alert("HARVEST", "LOW", "rewards")>> ELSE <<>>,
   state |-> <<>>, error |-> "none"]

\* the prices a data source reports, in thousandths of a dollar
PriceValues == {0, 30, 100, 104, 105, 106, 109, 110, 1000, 1100}

\* lines 238, 240 and 244: change = (price - previous) / previous;
\* abs(change) >= c / 1000, for a previous price that is not 0
change_reaches ==
  [c \in {50, 100} |-> [price \in PriceValues |-> [previous \in PriceValues \ {0} |->
     \E current \in {Float(1000, price)}, last \in {Float(1000, previous)},
        threshold \in {Float(1000, c)} :
       \E difference \in {FloatSub(1000, current, last)} :
         FloatRatioReaches(1000, difference, last, threshold)]]]

\* a check() that stores the new price before it compares
division_by_zero_Refreshed(asset, price, last_prices, alerts) ==
  [alerts |-> alerts, state |-> DictPut(last_prices, asset, price),
   error |-> "ZeroDivisionError"]

\* line 238 with previous == 0: the exception leaves check() with the alerts
\* already passed to notify() and the baselines already assigned; line 253 is
\* not reached for this asset
division_by_zero(asset, price, last_prices, alerts) ==
  [alerts |-> alerts, state |-> last_prices, error |-> "ZeroDivisionError"]

\* PriceMovementAgent.check: lines 233-253; the division on line 238 raises
\* ZeroDivisionError when the previous price is 0; abs(change) is compared
\* with 0.05 = 50/1000 and 0.10 = 100/1000
RECURSIVE price_check(_, _, _)
price_check(current_prices, last_prices, alerts) ==
  IF current_prices = <<>>
  THEN [alerts |-> alerts, state |-> last_prices, error |-> "none"]
  ELSE LET asset == Head(current_prices).asset
           price == Head(current_prices).price
           known == asset \in DOMAIN last_prices
           previous == IF known THEN last_prices[asset] ELSE 1
           moved == known /\ change_reaches[50][price][previous]
           priority == IF ~change_reaches[100][price][previous] THEN "MEDIUM" ELSE "HIGH"
       IN  IF known /\ previous = 0
           THEN division_by_zero(asset, price, last_prices, alerts)
           ELSE price_check(Tail(current_prices),
                            DictPut(last_prices, asset, price),
                            IF moved THEN Append(alerts, Alert("PRICE_MOVEMENT", priority, asset))
                            ELSE alerts)

\* what the data source of each class returns in one cycle
Observations(kind) ==
  CASE kind = "IdleAssetMonitorAgent" ->
         {<<>>}
         \cup {<<[asset |-> "XLM", days_idle |-> d]>> : d \in {20, 29, 30, 45, 59, 60, 61}}
         \cup {<<[asset |-> "XLM", days_idle |-> d], [asset |-> "USDC", days_idle |-> e]>> :
                 d \in {29, 30, 60}, e \in {29, 30, 60}}
    [] kind = "OpportunityScoutAgent" ->
         {<<>>}
         \cup {<<[protocol |-> "Aquarius", apy |-> x]>> : x \in {60, 80, 100, 101}}
         \cup {<<[protocol |-> "Aquarius", apy |-> x], [protocol |-> "Stellar Lend", apy |-> y]>> :
                 x \in {80, 101}, y \in {63, 83, 104}}
    [] kind = "RiskMonitorAgent" ->
         {<<>>}
         \cup {<<[severity |-> v, title |-> "first"]>> : v \in {"LOW", "MEDIUM", "HIGH", "CRITICAL"}}
         \cup {<<[severity |-> v, title |-> "first"], [severity |-> w, title |-> "second"]>> :
                 v \in {"MEDIUM", "HIGH", "CRITICAL"}, w \in {"MEDIUM", "HIGH", "CRITICAL"}}
    [] kind = "AutoRebalancerAgent" ->
         { [LOW |-> 45, MODERATE |-> 35, HIGH |-> 20],
           [LOW |-> 40, MODERATE |-> 30, HIGH |-> 30],
           [LOW |-> 61, MODERATE |-> 29, HIGH |-> 10],
           [LOW |-> 60, MODERATE |-> 40],
           [MODERATE |-> 100] }
    [] kind = "YieldHarvesterAgent" -> RewardLists
    [] kind = "PriceMovementAgent" ->
         {<<[asset |-> "XLM", price |-> x]>> :
            x \in {0, 30, 100, 104, 105, 106, 109, 110}}
         \cup {<<[asset |-> "XLM", price |-> x], [asset |-> "USDC", price |-> y]>> :
                 x \in {0, 100, 106}, y \in {1000, 1100}}

\* self.check() of an agent of the class, with the data its source returned
RunCheck(kind, observed, state) ==
  CASE kind = "IdleAssetMonitorAgent" -> idle_check(observed)
    [] kind = "OpportunityScoutAgent" -> scout_check(observed, state, <<>>)
    [] kind = "RiskMonitorAgent"      -> risk_check(observed)
    [] kind = "AutoRebalancerAgent"   -> rebalancer_check(observed, target_allocation)
    [] kind = "YieldHarvesterAgent"   -> harvester_check(observed)
    [] kind = "PriceMovementAgent"    -> price_check(observed, state, <<>>)

\* the history after handle() was called for each of the alerts in turn
RECURSIVE HandleEach(_, _)
HandleEach(h, alerts) ==
  IF alerts = <<>> THEN h ELSE HandleEach(HandleHistory(h, Head(alerts)), Tail(alerts))

\* one pass of _run_loop by a loop thread of agent a: the loop test, check()
\* with every notify() call it makes, and the sleep; state is the agent's
\* baseline dict (tracked_apys, last_prices), outcome records what the data
\* source returned
CheckCycle(a) ==
  /\ a \in 1..Len(agents)
  /\ agents[a].is_active
  /\ \E t \in ThreadsOf(a) : threads[t].pc = "L34"
  /\ loop_tests < MaxCheckCycles
  /\ loop_tests' = loop_tests + 1
  /\ \E observed \in Observations(agents[a].kind) :
       LET r == RunCheck(agents[a].kind, observed, agents[a].state)
           alerts == [i \in 1..Len(r.alerts) |->
                        [id |-> created + i, type |-> r.alerts[i].type,
                         priority |-> r.alerts[i].priority, key |-> r.alerts[i].key]]
       IN  /\ agents' = [agents EXCEPT ![a].state = r.state]
           /\ created' = created + Len(alerts)
           /\ alert_history' = HandleEach(alert_history, alerts)
           /\ appended' = appended \o alerts
           /\ sent' = sent \cup UNION {Dispatch(notification_channels, phone_number, alerts[i]) :
                                        i \in 1..Len(alerts)}
           /\ outcome' = [op |-> "check", error |-> r.error, observed |-> observed]
  /\ UNCHANGED <<orch_agents, threads, notification_channels, phone_number, risk_tolerance,
                 target_allocation, recent>>

\* an orchestrator and one agent object of some class, built and not started
InitCheck ==
  \E kind \in Range(Kinds), tag \in {"conservative", "moderate", "aggressive"} :
    /\ (kind # "AutoRebalancerAgent" => tag = "moderate")
    /\ agents = <<[kind |-> kind, is_active |-> FALSE, notify |-> "_handle_notification",
                   state |-> <<>>]>>
    /\ orch_agents = <<>>
    /\ threads = <<>>
    /\ alert_history = <<>>
    /\ notification_channels = [push |-> TRUE, email |-> FALSE, sms |-> FALSE]
    /\ phone_number = ""
    /\ risk_tolerance = tag
    /\ target_allocation = AllocationTable(tag)
    /\ created = 0
    /\ appended = <<>>
    /\ sent = {}
    /\ loop_tests = 0
    /\ recent = <<>>
    /\ outcome = [op |-> "__init__", error |-> "none"]

NextCheck ==
  \/ \E a \in 1..Len(agents) : Start(a)
  \/ \E a \in 1..Len(agents) : Stop(a)
  \/ \E a \in 1..Len(agents) : CheckCycle(a)
SpecCheck == InitCheck /\ [][NextCheck]_vars

\* the alerts a step appended
NewAlerts == SubSeq(appended', Len(appended) + 1, Len(appended'))

\* the classes that compare an observation with the previous one of its key
ChangeBased == {"OpportunityScoutAgent", "PriceMovementAgent"}

\* C24: for OpportunityScout (per protocol) and PriceMovement (per asset) the
\* first observation of a key after the monitor starts never emits an alert,
\* whatever its value: the first cycle after start() emits nothing, and an
\* alert for a key is emitted only in a cycle before which a baseline for that
\* key existed.
C24_FirstObservationSilent ==
  [][\A a \in 1..Len(agents) :
       (CheckCycle(a) /\ agents[a].kind \in ChangeBased) =>
         /\ outcome.op = "start" => NewAlerts = <<>>
         /\ \A i \in 1..Len(NewAlerts) : NewAlerts[i].key \in DOMAIN agents[a].state]_vars

\* the agent whose loop thread made the step
CycleOf(kind) == {a \in 1..Len(agents) : agents[a].kind = kind /\ CheckCycle(a)}

\* the alerts of a step that name the key
AlertsFor(key) == SelectSeq(NewAlerts, LAMBDA alert : alert.key = key)

\* C25: in a cycle of PriceMovementAgent, for each observed asset that has a
\* baseline, exactly one alert is emitted when the price moved by at least 5%
\* of the baseline and none otherwise, with priority MEDIUM below 10% and HIGH
\* from 10% on; and after the cycle the baseline of the asset is the new price.
C25_PriceAlertsByMove ==
  [][\A a \in CycleOf("PriceMovementAgent") :
       \A i \in 1..Len(outcome'.observed) :
         LET asset == outcome'.observed[i].asset
             price == outcome'.observed[i].price
         IN  asset \in DOMAIN agents[a].state =>
               LET last_price == agents[a].state[asset]
                   moved == /\ last_price # 0
                            /\ Abs(price - last_price) * 100 >= 5 * Abs(last_price)
                   below == Abs(price - last_price) * 100 < 10 * Abs(last_price)
               IN  /\ Len(AlertsFor(asset)) = IF moved THEN 1 ELSE 0
                   /\ moved => AlertsFor(asset)[1].priority =
                                 IF below THEN "MEDIUM" ELSE "HIGH"
                   /\ agents'[a].state[asset] = price]_vars

\* C26: in every cycle of IdleAssetMonitorAgent, the first one included,
\* exactly one alert is emitted for each observed asset idle for 30 days or
\* more and none for an asset idle for less; the alert is MEDIUM below 60 idle
\* days and HIGH from 60 days on; nothing else is emitted.
C26_IdleAlertsByDays ==
  [][\A a \in CycleOf("IdleAssetMonitorAgent") :
       /\ \A i \in 1..Len(outcome'.observed) :
            LET asset == outcome'.observed[i].asset
                days_idle == outcome'.observed[i].days_idle
            IN  /\ Len(AlertsFor(asset)) = IF days_idle >= 30 THEN 1 ELSE 0
                /\ days_idle >= 30 =>
                     /\ AlertsFor(asset)[1].type = "IDLE_ASSET"
                     /\ AlertsFor(asset)[1].priority =
                          IF days_idle < 60 THEN "MEDIUM" ELSE "HIGH"
       /\ \A i \in 1..Len(NewAlerts) :
            \E j \in 1..Len(outcome'.observed) :
              outcome'.observed[j].asset = NewAlerts[i].key]_vars

\* the very first cycle of the agent observed XLM idle for 60 days and USDC
\* for 29: one HIGH alert, for XLM
C26_Witness ==
  /\ agents[1].kind = "IdleAssetMonitorAgent"
  /\ outcome.op = "check"
  /\ loop_tests = 1
  /\ outcome.observed = <<[asset |-> "XLM", days_idle |-> 60],
                          [asset |-> "USDC", days_idle |-> 29]>>
  /\ Len(appended) = 1
  /\ appended[1].priority = "HIGH"
  /\ appended[1].key = "XLM"

\* C27: in a cycle of OpportunityScoutAgent, for each observed protocol with
\* a stored APY, one HIGH alert is emitted when the current APY exceeds the
\* stored one by strictly more than 2 points and none otherwise (an increase
\* of exactly 2 points, or a decrease, emits nothing); after the cycle the
\* stored APY of every observed protocol is the current one, alert or not.
C27_SpikeAboveTwoPoints ==
  [][\A a \in CycleOf("OpportunityScoutAgent") :
       \A i \in 1..Len(outcome'.observed) :
         LET protocol == outcome'.observed[i].protocol
             current_apy == outcome'.observed[i].apy
         IN  /\ agents'[a].state[protocol] = current_apy
             /\ protocol \in DOMAIN agents[a].state =>
                  LET increase == current_apy - agents[a].state[protocol]
                  IN  /\ Len(AlertsFor(protocol)) = IF increase > 20 THEN 1 ELSE 0
                      /\ increase > 20 =>
                           /\ AlertsFor(protocol)[1].type = "APY_SPIKE"
                           /\ AlertsFor(protocol)[1].priority = "HIGH"]_vars

\* C28: in a cycle of AutoRebalancerAgent, for each bucket of the target
\* allocation, one MEDIUM alert is emitted when the current fraction (0 for
\* a bucket missing from the current allocation) differs from the target by
\* strictly more than 0.10, and none when the drift is 0.10 or less.
C28_DriftAboveTenth ==
  [][\A a \in CycleOf("AutoRebalancerAgent") :
       \A risk_level \in DOMAIN target_allocation :
         LET current == DictGet(outcome'.observed, risk_level, 0)
             drift == Abs(current - target_allocation[risk_level])
         IN  /\ Len(AlertsFor(risk_level)) = IF drift > 10 THEN 1 ELSE 0
             /\ drift > 10 =>
                  /\ AlertsFor(risk_level)[1].type = "REBALANCE"
                  /\ AlertsFor(risk_level)[1].priority = "MEDIUM"]_vars

\* C29: in a cycle of RiskMonitorAgent exactly one alert is emitted for each
\* detected risk of severity HIGH or CRITICAL and none for a risk of another
\* severity; the alert is CRITICAL for severity CRITICAL and HIGH otherwise;
\* nothing else is emitted.
C29_RiskAlertsMirrorSeverity ==
  [][\A a \in CycleOf("RiskMonitorAgent") :
       /\ \A i \in 1..Len(outcome'.observed) :
            LET risk == outcome'.observed[i]
                urgent == risk.severity \in {"HIGH", "CRITICAL"}
            IN  /\ Len(AlertsFor(risk.title)) = IF urgent THEN 1 ELSE 0
                /\ urgent =>
                     /\ AlertsFor(risk.title)[1].type = "RISK_ALERT"
                     /\ AlertsFor(risk.title)[1].priority =
                          IF risk.severity = "CRITICAL" THEN "CRITICAL" ELSE "HIGH"
       /\ \A i \in 1..Len(NewAlerts) :
            \E j \in 1..Len(outcome'.observed) :
              outcome'.observed[j].title = NewAlerts[i].key]_vars

\* a cycle detected a HIGH and then a CRITICAL risk: two alerts, HIGH and
\* CRITICAL in that order
C29_Witness ==
  /\ agents[1].kind = "RiskMonitorAgent"
  /\ outcome.op = "check"
  /\ outcome.observed = <<[severity |-> "HIGH", title |-> "first"],
                          [severity |-> "CRITICAL", title |-> "second"]>>
  /\ Len(appended) = 2
  /\ appended[1].priority = "HIGH" /\ appended[1].key = "first"
  /\ appended[2].priority = "CRITICAL" /\ appended[2].key = "second"

\* the sum of the rewards' USD values, in cents
RECURSIVE TotalCents(_)
TotalCents(unclaimed) ==
  IF unclaimed = <<>> THEN 0 ELSE Head(unclaimed).value_usd + TotalCents(Tail(unclaimed))

\* C30: a cycle of YieldHarvesterAgent emits exactly one alert, of priority
\* LOW, when the USD values of the unclaimed rewards sum to 1.00 or more, and
\* no alert when they sum to less, however many rewards there are.
C30_HarvestAtOneDollar ==
  [][\A a \in CycleOf("YieldHarvesterAgent") :
       IF TotalCents(outcome'.observed) >= 100
       THEN /\ Len(NewAlerts) = 1
            /\ NewAlerts[1].type = "HARVEST"
            /\ NewAlerts[1].priority = "LOW"
       ELSE NewAlerts = <<>>]_vars

\* ---------------------------------------------- the lifecycle state machine
\* the lifecycle state of monitor a as its fields show it: is_active is set
\* only by start() and cleared only by stop(); self.thread is None until the
\* first start()
Lifecycle(a) ==
  IF agents[a].is_active THEN "Running"
  ELSE IF ThreadsOf(a) = {} THEN "Idle" ELSE "Stopped"

\* C31: a monitor is Idle when constructed; start() takes Idle or Stopped to
\* Running, stop() takes Running to Stopped and leaves Idle and Stopped alone,
\* nothing else changes the lifecycle state, and a check cycle begins only
\* while its monitor is Running.
C31_LifecycleStateMachine ==
  /\ \A a \in 1..Len(agents) : Lifecycle(a) = "Idle"
  /\ [][\A a \in 1..Len(agents) :
          /\ (Start(a) /\ Lifecycle(a) \in {"Idle", "Stopped"}) => Lifecycle(a)' = "Running"
          /\ Stop(a) => Lifecycle(a)' = IF Lifecycle(a) = "Running" THEN "Stopped"
                                        ELSE Lifecycle(a)
          /\ Lifecycle(a)' # Lifecycle(a) => (Start(a) \/ Stop(a))
          /\ \A t \in ThreadsOf(a) : CheckBegin(t) => Lifecycle(a) = "Running"]_vars

\* C32: the first cycle of a loop thread comes before any wait: a thread
\* starts at the loop test, goes from a passed test straight into check(), and
\* is asleep (line 38 or line 41) only coming out of a check() call.
C32_FirstCycleBeforeSleep ==
  [][/\ \A t \in (Len(threads) + 1)..Len(threads') : threads'[t].pc = "L34"
     /\ \A t \in 1..Len(threads) :
          /\ (threads[t].pc = "L34" /\ threads'[t].pc # "L34")
               => threads'[t].pc = IF agents[threads[t].agent].is_active
                                   THEN "L36" ELSE "exit"
          /\ (threads[t].pc = "L36" /\ threads'[t].pc # "L36") => threads'[t].pc = "check"
          /\ (threads[t].pc \notin {"L38", "L41"} /\ threads'[t].pc \in {"L38", "L41"})
               => threads[t].pc = "check"]_vars

\* the only loop thread is asleep after the one cycle that followed the one
\* loop test made so far
C32_Witness ==
  /\ Len(threads) = 1
  /\ loop_tests = 1
  /\ threads[1].pc = "L38"
  /\ outcome.op = "start"

\* ------------------------------------------------- does stop() take effect
\* line 34 as LoopTest, without the bound on the number of evaluations
LoopTestAgain(t) ==
  /\ t \in 1..Len(threads)
  /\ threads[t].pc = "L34"
  /\ threads' = SetPc(t, IF agents[threads[t].agent].is_active THEN "L36" ELSE "exit")
  /\ UNCHANGED <<agents, orch_agents, orchVars, logVars, loop_tests, recent, outcome>>

\* the steps of loop thread t: every check() call returns or raises and
\* every sleep ends
ThreadStep(t) ==
  \/ LoopTestAgain(t)
  \/ CheckBegin(t)
  \/ CheckEmit(t) /\ created < MaxMonCalls
  \/ CheckReturn(t)
  \/ CheckRaise(t)
  \/ Wake(t)

NextLive ==
  \/ \E a \in 1..Len(agents) : Start(a)
  \/ \E a \in 1..Len(agents) : Stop(a)
  \/ \E t \in 1..Len(threads) : ThreadStep(t)

\* the interpreter schedules every thread that can run: no loop thread is
\* left for ever at a statement it could execute
SpecLive ==
  /\ InitMon
  /\ [][NextLive]_vars
  /\ \A t \in 1..MaxThreads : WF_vars(ThreadStep(t))

\* C33: a loop thread that is alive when stop() is called leaves _run_loop
\* eventually, whatever start() calls follow.
C33_StopTakesEffect ==
  \A t \in 1..MaxThreads :
    (outcome.op = "stop" /\ t \in 1..Len(threads) /\ threads[t].pc # "exit")
      ~> (t \in 1..Len(threads) /\ threads[t].pc = "exit")

\* ------------------------------------------ the orchestrator's public calls
\* one alert shape of each priority
OpsShapes == {shape \in Range(AlertShapes) :
                shape.type \in {"HARVEST", "IDLE_ASSET", "APY_SPIKE"}
                \/ shape.priority = "CRITICAL"}

\* the dicts an orchestrator is constructed with; the last one has no entry
OpsConfigs == {[sms |-> TRUE], <<>>}
\* the limit the caller passes (the default)
OpsLimits == {20}
\* the settings dicts the caller passes
OpsSettings ==
  { [smsNotifications |-> FALSE],
    [emailNotifications |-> FALSE, pushNotifications |-> TRUE] }

\* a monitor's notify() call, run to completion
OpsHandle ==
  /\ created < MaxOpsHandled
  /\ created' = created + 1
  /\ \E shape \in OpsShapes : HandleWhole(MkAlert(created + 1, shape))
  /\ UNCHANGED <<agents, orch_agents, threads, notification_channels, phone_number,
                 risk_tolerance, target_allocation, loop_tests, recent, outcome>>

\* the history if the list get_recent_alerts returned were the history itself
HistoryAfterCallerEdit_Shared(h, edited) == edited

\* line 340: the slice is a new list object; what its receiver does to that
\* list leaves the list that self.alert_history names as it is
HistoryAfterCallerEdit(h, edited) == h

\* the caller of get_recent_alerts removes the first element of the list it
\* was handed (del alerts[0])
CallerEditsRecent ==
  /\ recent # <<>>
  /\ recent' = Tail(recent)
  /\ alert_history' = HistoryAfterCallerEdit(alert_history, Tail(recent))
  /\ outcome' = [op |-> "del alerts[0]", error |-> "none"]
  /\ UNCHANGED <<agents, orch_agents, threads, notification_channels, phone_number,
                 risk_tolerance, target_allocation, logVars, loop_tests>>

InitOps ==
  \E nc \in OpsConfigs : Constructed(nc, "+15550100", "moderate")

NextOps ==
  \/ OpsHandle
  \/ \E limit \in OpsLimits : GetRecentAlerts(limit)
  \/ \E settings \in OpsSettings : update_settings(settings)
  \/ activate_all_agents /\ Len(agents) = 0
  \/ deactivate_all_agents
  \/ CallerEditsRecent
SpecOps == InitOps /\ [][NextOps]_vars

\* C34: every alert in the history has one of the four priorities and is
\* the alert as it was handed to handle(): no call changes a field of an
\* alert that is stored.
C34_StoredAlertsImmutable ==
  /\ [](\A i \in 1..Len(alert_history) :
          /\ alert_history[i].priority \in Range(Priorities)
          /\ alert_history[i] \in Range(appended))
  /\ [][\A i \in 1..Len(alert_history), j \in 1..Len(alert_history') :
          alert_history'[j].id = alert_history[i].id
            => alert_history'[j] = alert_history[i]]_vars

\* two alerts are stored, a HIGH one before a CRITICAL one, both were
\* returned by get_recent_alerts, and update_settings was called afterwards
C34_Witness ==
  /\ Len(alert_history) = 2
  /\ alert_history[1].priority = "HIGH"
  /\ alert_history[2].priority = "CRITICAL"
  /\ recent = alert_history
  /\ outcome.op = "update_settings"

\* ------------------------------------------------ the target allocation
\* sum(allocation.values()) == 1.0 on the floats the fractions are
FractionsSumToOne(allocation) ==
  \E low \in {Float(100, allocation.LOW)}, moderate \in {Float(100, allocation.MODERATE)},
     high \in {Float(100, allocation.HIGH)} :
    \E first \in {FloatAdd(100, low, moderate)} :
      FloatAdd(100, first, high) = Float(100, 100)

\* C35: in every state the orchestrator's target allocation is the entry of
\* the table for its current risk tolerance, and its three fractions sum to
\* 1.0.
C35_AllocationFollowsTolerance ==
  /\ target_allocation = AllocationTable(risk_tolerance)
  /\ FractionsSumToOne(target_allocation)

\* ------------------------------------------------ the comparison baselines
\* the key and the value of an observation of a change-based class
ObservedKey(kind, o) == IF kind = "OpportunityScoutAgent" THEN o.protocol ELSE o.asset
ObservedValue(kind, o) == IF kind = "OpportunityScoutAgent" THEN o.apy ELSE o.price

\* C36: a monitor's baselines are empty when start() returns and when stop()
\* returns, and after every check cycle the baseline of every observed key is
\* the value just observed.
C36_BaselinesFollowLifecycle ==
  [][\A a \in 1..Len(agents) :
       /\ Start(a) => agents'[a].state = <<>>
       /\ Stop(a) => agents'[a].state = <<>>
       /\ (CheckCycle(a) /\ agents[a].kind \in ChangeBased)
            => \A i \in 1..Len(outcome'.observed) :
                 LET key == ObservedKey(agents[a].kind, outcome'.observed[i])
                 IN  /\ key \in DOMAIN agents'[a].state
                     /\ agents'[a].state[key]
                          = ObservedValue(agents[a].kind, outcome'.observed[i])]_vars

\* ------------------------------------ update_settings during a handle() call
\* the preferences the run starts with, and the settings the web layer passes
RacePreferences == [push |-> TRUE, email |-> TRUE, sms |-> TRUE]
RaceSettings ==
  { [smsNotifications |-> FALSE],
    [emailNotifications |-> FALSE, pushNotifications |-> FALSE] }

\* the six monitors activated, the first ones inside check()
InitRace == InitFail /\ notification_channels = RacePreferences

\* the loop threads run _handle_notification statement by statement while the
\* web layer's thread makes at most one update_settings call (a whole call in
\* one step; no lock is taken on either side)
NextRace ==
  \/ \E t \in 1..Len(threads) : Notify(t)
  \/ \E t \in 1..Len(threads) : H303(t)
  \/ \E t \in 1..Len(threads) : H306(t)
  \/ \E t \in 1..Len(threads) : H312(t)
  \/ \E t \in 1..Len(threads) : H315(t)
  \/ \E t \in 1..Len(threads) : H318(t)
  \/ \E settings \in RaceSettings :
       update_settings(settings) /\ outcome.op = "activate_all_agents"
SpecRace == InitRace /\ [][NextRace]_vars

\* the channels on which the alert has been sent
FiredFor(alert, log) == {e \in log : e[1] = alert.id}

\* C37: when a handle() call returns, the channels it fired are the router's
\* decision on the preferences as they were before the update_settings call
\* of the run or as they are after it, never a combination of the two.
C37_RoutingOnOneSnapshot ==
  [][\A t \in 1..Len(threads) :
       H318(t) =>
         FiredFor(threads[t].alert, sent')
           \in {Dispatch(RacePreferences, "+15550100", threads[t].alert),
                Dispatch(notification_channels, phone_number, threads[t].alert)}]_vars

C39_MissingChannelDefaults ==
  [][/\ OpsHandle =>
          LET alert == appended'[Len(appended')]
              fired == FiredFor(alert, sent')
              enabled(ch, default) == IF ch \in DOMAIN notification_channels
                                      THEN notification_channels[ch] ELSE default
          IN  /\ (<<alert.id, "push">> \in fired) = enabled("push", TRUE)
              /\ (<<alert.id, "email">> \in fired) = enabled("email", TRUE)
              /\ (<<alert.id, "sms">> \in fired) => enabled("sms", FALSE)
              /\ (enabled("sms", FALSE) /\ alert.priority \in {"HIGH", "CRITICAL"}
                    /\ phone_number # "") => <<alert.id, "sms">> \in fired
     /\ \A settings \in OpsSettings :
          update_settings(settings) =>
            \A p \in {<<"email", "emailNotifications">>, <<"sms", "smsNotifications">>,
                      <<"push", "pushNotifications">>} :
              p[2] \in DOMAIN settings
                => (p[1] \in DOMAIN notification_channels'
                    /\ notification_channels'[p[1]] = settings[p[2]])]_vars

\* the preferences never had a push or an email entry: both alerts were
\* pushed and mailed; the first, urgent, went out by SMS on the constructor's
\* sms entry, the second, urgent too, did not, after update_settings had
\* switched sms off
C39_Witness ==
  /\ DOMAIN notification_channels = {"sms"}
  /\ ~notification_channels["sms"]
  /\ Len(appended) = 2
  /\ appended[1].priority = "HIGH"
  /\ appended[2].priority = "CRITICAL"
  /\ FiredFor(appended[1], sent) = {<<1, "push">>, <<1, "email">>, <<1, "sms">>}
  /\ FiredFor(appended[2], sent) = {<<2, "push">>, <<2, "email">>}

\* ------------------------------------------- what each call leaves alone
\* C40: get_recent_alerts, update_settings, activate_all_agents and
\* deactivate_all_agents leave the history as it is, and so does a caller that
\* edits the list get_recent_alerts returned; a handle() call leaves the
\* preferences, the phone number, the risk tolerance and the agents as they
\* are.
C40_CallsKeepToTheirState ==
  [][/\ (\E limit \in OpsLimits : GetRecentAlerts(limit)) => UNCHANGED alert_history
     /\ (\E settings \in OpsSettings : update_settings(settings)) => UNCHANGED alert_history
     /\ activate_all_agents => UNCHANGED alert_history
     /\ deactivate_all_agents => UNCHANGED alert_history
     /\ CallerEditsRecent => UNCHANGED alert_history
     /\ OpsHandle => UNCHANGED <<notification_channels, phone_number, risk_tolerance,
                                 target_allocation, orch_agents, agents, threads>>
     /\ alert_history' # alert_history => OpsHandle]_vars

\* the agents run, two alerts are stored, and the caller has removed an
\* alert from the list of two that get_recent_alerts had returned
C40_Witness ==
  /\ outcome.op = "del alerts[0]"
  /\ Len(alert_history) = 2
  /\ recent = <<alert_history[2]>>
  /\ Running # {}
  /\ notification_channels = [sms |-> FALSE]

====
